---- MODULE Spec2Model ----
(***************************************************************************)
(* A model of the restish command-line client: the plugin registries set   *)
(* up by Init and Defaults, the start-up sequence of Run, the auth         *)
(* handlers, and the parts of the request pipeline (auth dispatch, link    *)
(* resolution, auto-pagination, description loading) that Run drives.      *)
(***************************************************************************)
EXTENDS Integers, Sequences, FiniteSets, TLC

VARIABLES
    \* the plugin registries (package-level variables of package cli)
    authHandlers, contentTypes, encodings, linkParsers, loaders,
    \* history of the registrations made since the last Init
    lastAuth, lastCT, lastEnc, defaultsSinceInit, extraParsers,
    \* link resolution: what each parser finds in the response, and the merged map
    response, links, resolved,
    \* auth dispatch: the profile's scheme and params, what the shell command
    \* does, the outgoing request and the outcome
    authScheme, authParams, shellErr, shellOut, req, authResult, authDetail, onRequestCalls,
    \* the process running Init, Defaults, Run: its position, its environment
    \* (os.Args, the configured APIs, the commands initAPIConfig adds to Root),
    \* Root's commands, Run's apiName, and what has happened so far
    pc, osArgs, configs, apiCmds, rootCmds, apiName, loadCalls, loadResult, loadedOps,
    executions, execRequests, httpRequests, inFlight, lateWrites, inFlightWrites, execWrites,
    \* auto-pagination of one command: the chain of pages the server holds, the
    \* page whose fetch fails (0: none), the page-count ceiling, the pipeline's
    \* state, the fetches started, the pages fetched, the cancellation signal
    chainLen, failAt, ceiling, pstate, started, fetched, cancelSignal, panicked,
    \* the description loader: each caller's position, profile and number of
    \* calls, the per-profile lock, the description cache, the fingerprint of
    \* each profile's source, and counts of what happened per profile
    lpc, lprofile, lcalls, lock, cache, sourceFp, fetches, fetchFailed, loadsDone

regVars == <<authHandlers, contentTypes, encodings, linkParsers, loaders>>
histVars == <<lastAuth, lastCT, lastEnc, defaultsSinceInit, extraParsers>>
linkVars == <<response, links, resolved>>
authVars == <<authScheme, authParams, shellErr, shellOut, req, authResult, authDetail, onRequestCalls>>
envVars == <<osArgs, configs, apiCmds>>
runVars == <<pc, rootCmds, apiName, loadCalls, loadResult, loadedOps,
             executions, execRequests, httpRequests, inFlight, lateWrites, inFlightWrites, execWrites>>
pageVars == <<chainLen, failAt, ceiling, pstate, started, fetched, cancelSignal, panicked>>
loadVars == <<lpc, lprofile, lcalls, lock, cache, sourceFp, fetches, fetchFailed, loadsDone>>
vars == <<regVars, histVars, linkVars, authVars, envVars, runVars, pageVars, loadVars>>

----------------------------------------------------------------------------
(* Bounds *)

\* Defaults appends four link parsers on every call; the registry is capped.
MaxLinkParsers == 8

\* Parsers registered one by one with AddLinkParser, besides those of Defaults.
MaxExtraParsers == 1

\* Links the parsers discover in one response, all together.
MaxLinks == 3

\* Characters the shell command of api-key-header prints.
MaxOutLen == 4

\* Arguments after the program name.
MaxArgs == 3

\* HTTP requests the executed command issues (one per page).
MaxExecRequests == 2

\* Pages in the chain a server holds, and the largest page-count ceiling.
MaxPages == 4

MaxCeiling == 4

\* Pipeline executions calling Load at the same time, calls each makes, and
\* changes of a profile's source.
NumCallers == 2

MaxLoadsPerCaller == 1

MaxFpChanges == 1

----------------------------------------------------------------------------
(* Registry contents *)

NoHandler == "<none>"

AuthNames == {"http-basic", "api-key-header", "custom"}
AuthHandlerTypes == {"BasicAuth", "ApiKeyHeaderFromShellAuth", "CustomAuth"}

ContentTypeNames == {"application/cbor", "application/msgpack", "application/ion",
                     "application/json", "application/yaml", "text/*"}

EncodingNames == {"gzip", "br"}

\* A Go map: a function whose domain is the set of keys present.
EmptyMap == [k \in {} |-> NoHandler]

MapSet(m, k, v) == [x \in (DOMAIN m) \cup {k} |-> IF x = k THEN v ELSE m[x]]

\* a registration that keeps the handler already present
AddAuthFirstWins(m, name, h) == IF name \in DOMAIN m THEN m ELSE MapSet(m, name, h)

\* AddAuth registers a new named auth handler.
AddAuthOp(m, name, h) == MapSet(m, name, h)

AddEncodingOp(m, name, enc) == MapSet(m, name, enc)

CTIndex(s, name) == {i \in 1..Len(s) : s[i].name = name}

\* The content-type registry is an ordered collection keyed by pattern:
\* registering a pattern again replaces its entry in place.
AddContentTypeOp(s, name, q, ct) ==
    LET e == [name |-> name, q |-> q, ct |-> ct]
    IN IF CTIndex(s, name) = {}
       THEN Append(s, e)
       ELSE [i \in 1..Len(s) |-> IF s[i].name = name THEN e ELSE s[i]]

AddLinkParserOp(s, p) == Append(s, p)

DefaultEncodings(m) == AddEncodingOp(AddEncodingOp(m, "gzip", "GzipEncoding"), "br", "BrotliEncoding")

\* quality values are kept in tenths
DefaultContentTypes(s) ==
    AddContentTypeOp(
     AddContentTypeOp(
      AddContentTypeOp(
       AddContentTypeOp(
        AddContentTypeOp(
         AddContentTypeOp(s, "application/cbor", 9, "CBOR"),
         "application/msgpack", 8, "MsgPack"),
        "application/ion", 6, "Ion"),
       "application/json", 5, "JSON"),
      "application/yaml", 5, "YAML"),
     "text/*", 2, "Text")

\* the link parsers with the first two in the other order
DefaultLinkParsersSwapped(s) ==
    AddLinkParserOp(AddLinkParserOp(AddLinkParserOp(AddLinkParserOp(s,
        "HALParser"), "LinkHeaderParser"), "TerrificallySimpleJSONParser"), "JSONAPIParser")

\* Defaults: "Add link relation parsers"
DefaultLinkParsers(s) ==
    AddLinkParserOp(AddLinkParserOp(AddLinkParserOp(AddLinkParserOp(s,
        "LinkHeaderParser"), "HALParser"), "TerrificallySimpleJSONParser"), "JSONAPIParser")

DefaultAuth(m) == AddAuthOp(AddAuthOp(m, "http-basic", "BasicAuth"),
                            "api-key-header", "ApiKeyHeaderFromShellAuth")

----------------------------------------------------------------------------
(* History bookkeeping: what was registered last under each key *)

NoneYet(S) == [k \in S |-> NoHandler]

NoCT == <<0, NoHandler>>

Note(h, k, v) == [h EXCEPT ![k] = v]

\* the registries as the package declares them: all empty
FreshRegistries ==
    /\ authHandlers = EmptyMap
    /\ contentTypes = <<>>
    /\ encodings = EmptyMap
    /\ linkParsers = <<>>
    /\ loaders = <<>>
    /\ lastAuth = NoneYet(AuthNames)
    /\ lastCT = [k \in ContentTypeNames |-> NoCT]
    /\ lastEnc = NoneYet(EncodingNames)
    /\ defaultsSinceInit = 0
    /\ extraParsers = 0

----------------------------------------------------------------------------
(* The registration API, callable in any order *)

\* Init: "Reset registries."
CallInit ==
    /\ authHandlers' = EmptyMap
    /\ contentTypes' = <<>>
    /\ encodings' = EmptyMap
    /\ linkParsers' = <<>>
    /\ loaders' = <<>>
    /\ lastAuth' = NoneYet(AuthNames)
    /\ lastCT' = [k \in ContentTypeNames |-> NoCT]
    /\ lastEnc' = NoneYet(EncodingNames)
    /\ defaultsSinceInit' = 0
    /\ extraParsers' = 0

CallDefaults ==
    /\ Len(linkParsers) + 4 <= MaxLinkParsers
    /\ encodings' = DefaultEncodings(encodings)
    /\ contentTypes' = DefaultContentTypes(contentTypes)
    /\ linkParsers' = DefaultLinkParsers(linkParsers)
    /\ authHandlers' = DefaultAuth(authHandlers)
    /\ loaders' = loaders
    /\ lastAuth' = Note(Note(lastAuth, "http-basic", "BasicAuth"),
                        "api-key-header", "ApiKeyHeaderFromShellAuth")
    /\ lastCT' = [k \in ContentTypeNames |->
                    CASE k = "application/cbor" -> <<9, "CBOR">>
                      [] k = "application/msgpack" -> <<8, "MsgPack">>
                      [] k = "application/ion" -> <<6, "Ion">>
                      [] k = "application/json" -> <<5, "JSON">>
                      [] k = "application/yaml" -> <<5, "YAML">>
                      [] k = "text/*" -> <<2, "Text">>]
    /\ lastEnc' = [k \in EncodingNames |->
                    IF k = "gzip" THEN "GzipEncoding" ELSE "BrotliEncoding"]
    /\ defaultsSinceInit' = defaultsSinceInit + 1
    /\ extraParsers' = extraParsers

CallAddAuth ==
    \E name \in AuthNames, h \in AuthHandlerTypes :
        /\ authHandlers' = AddAuthOp(authHandlers, name, h)
        /\ lastAuth' = Note(lastAuth, name, h)
        /\ UNCHANGED <<contentTypes, encodings, linkParsers, loaders, lastCT, lastEnc, defaultsSinceInit, extraParsers>>

CallAddContentType ==
    \E name \in {"application/json", "text/*"}, q \in {5, 10}, ct \in {"JSON", "CustomCodec"} :
        /\ contentTypes' = AddContentTypeOp(contentTypes, name, q, ct)
        /\ lastCT' = Note(lastCT, name, <<q, ct>>)
        /\ UNCHANGED <<authHandlers, encodings, linkParsers, loaders, lastAuth, lastEnc, defaultsSinceInit, extraParsers>>

CallAddEncoding ==
    \E name \in EncodingNames, enc \in {"GzipEncoding", "CustomEncoding"} :
        /\ encodings' = AddEncodingOp(encodings, name, enc)
        /\ lastEnc' = Note(lastEnc, name, enc)
        /\ UNCHANGED <<authHandlers, contentTypes, linkParsers, loaders, lastAuth, lastCT, defaultsSinceInit, extraParsers>>

CallAddLinkParser ==
    \E p \in {"HALParser"} :
        /\ Len(linkParsers) < MaxLinkParsers
        /\ extraParsers < MaxExtraParsers
        /\ linkParsers' = AddLinkParserOp(linkParsers, p)
        /\ extraParsers' = extraParsers + 1
        /\ UNCHANGED <<authHandlers, contentTypes, encodings, loaders,
                       lastAuth, lastCT, lastEnc, defaultsSinceInit>>

----------------------------------------------------------------------------
(* Link resolution: every registered parser runs over the same response and *)
(* the maps they return are merged into one relation map                    *)

ParserTypes == {"LinkHeaderParser", "HALParser", "TerrificallySimpleJSONParser", "JSONAPIParser"}

Rels == {"next", "self"}

SeqsUpTo(S, n) == UNION {[1..k -> S] : k \in 0..n}

\* A response, seen through each convention: the relations the parser of that
\* convention discovers in it, in discovery order.
ResponseShapes ==
    {resp \in [ParserTypes -> SeqsUpTo(Rels, MaxLinks)] :
        Len(resp["LinkHeaderParser"]) + Len(resp["HALParser"])
        + Len(resp["TerrificallySimpleJSONParser"]) + Len(resp["JSONAPIParser"]) <= MaxLinks}

NoResponse == [p \in ParserTypes |-> <<>>]

NoLinks == [r \in Rels |-> <<>>]

\* no response has been handled
LinkIdle ==
    /\ response = NoResponse
    /\ links = NoLinks
    /\ resolved = FALSE

\* The k-th link parser p discovers; its target is identified by <<p, k>>.
Discovered(p, resp) ==
    [k \in 1..Len(resp[p]) |-> [rel |-> resp[p][k], uri |-> <<p, k>>]]

\* The LinkMap one parser returns: relation -> links in discovery order.
ParserLinks(p, resp) ==
    [r \in Rels |-> LET IsRel(l) == l.rel = r IN SelectSeq(Discovered(p, resp), IsRel)]

MergeLinks(acc, m) == [r \in Rels |-> acc[r] \o m[r]]

RECURSIVE ResolveFrom(_, _, _)
ResolveFrom(parsers, resp, acc) ==
    IF parsers = <<>>
    THEN acc
    ELSE ResolveFrom(Tail(parsers), resp, MergeLinks(acc, ParserLinks(Head(parsers), resp)))

ResolveLinks(parsers, resp) == ResolveFrom(parsers, resp, NoLinks)

\* The response of the run is parsed and its links resolved.
Resolve ==
    /\ ~resolved
    /\ \E resp \in ResponseShapes :
        /\ response' = resp
        /\ links' = ResolveLinks(linkParsers, resp)
        /\ resolved' = TRUE
        /\ UNCHANGED <<regVars, histVars, authVars, envVars, runVars, pageVars, loadVars>>

\* Registration happens during setup, before the first response is handled.
LinkNext ==
    \/ ~resolved /\ CallInit /\ UNCHANGED <<linkVars, authVars, pageVars, loadVars, envVars, runVars, pageVars>>
    \/ ~resolved /\ CallDefaults /\ UNCHANGED <<linkVars, authVars, pageVars, loadVars, envVars, runVars, pageVars>>
    \/ ~resolved /\ CallAddLinkParser /\ UNCHANGED <<linkVars, authVars, pageVars, loadVars, envVars, runVars, pageVars>>
    \/ Resolve

----------------------------------------------------------------------------
(* Auth handlers and auth dispatch *)

ParamNames == {"username", "password", "cmd"}

\* Basic Auth parameters with an optional password
BasicAuthParametersOptionalPassword ==
    << [Name |-> "username", Required |-> TRUE],
       [Name |-> "password", Required |-> FALSE] >>

\* Parameters define the HTTP Basic Auth parameter names.
BasicAuthParameters ==
    << [Name |-> "username", Required |-> TRUE],
       [Name |-> "password", Required |-> TRUE] >>

\* Parameters define the ApiKeyHeaderAuth parameter names.
ApiKeyHeaderFromShellAuthParameters ==
    << [Name |-> "cmd", Required |-> TRUE] >>

Parameters(h) ==
    CASE h = "BasicAuth" -> BasicAuthParameters
      [] h = "ApiKeyHeaderFromShellAuth" -> ApiKeyHeaderFromShellAuthParameters
      [] OTHER -> <<>>

\* params[name] of a Go map[string]string: "" when the key is absent
Lookup(params, name) == IF name \in DOMAIN params THEN params[name] ELSE ""

\* strings.TrimSuffix(s, "\n")
TrimSuffixNL(s) ==
    IF Len(s) >= 1 /\ s[Len(s)] = "\n" THEN SubSeq(s, 1, Len(s) - 1) ELSE s

RECURSIVE SplitFrom(_, _, _)
\* strings.Split(s, ":"): cur is the field being read, done the fields before it
SplitFrom(s, cur, done) ==
    IF s = <<>> THEN Append(done, cur)
    ELSE IF Head(s) = ":" THEN SplitFrom(Tail(s), <<>>, Append(done, cur))
    ELSE SplitFrom(Tail(s), Append(cur, Head(s)), done)

Split(s) == SplitFrom(s, <<>>, <<>>)

NoRequest == [basic |-> <<>>, header |-> <<>>]

\* BasicAuth.OnRequest: the outcome and the request after it
BasicAuthOnRequest(r, params) ==
    [result |-> "ok", detail |-> "",
     req |-> [r EXCEPT !.basic = <<Lookup(params, "username"), Lookup(params, "password")>>]]

\* ApiKeyHeaderFromShellAuth.OnRequest
ApiKeyHeaderFromShellAuthOnRequest(r, params, err, out) ==
    IF err
    THEN [result |-> "panic", detail |-> "Error running command for ApiKeyHeaderFromShellAuth", req |-> r]
    ELSE LET data == Split(TrimSuffixNL(out))
         IN IF Len(data) # 2
            THEN [result |-> "panic", detail |-> "Format error for command in ApiKeyHeaderFromShellAuth", req |-> r]
            ELSE [result |-> "ok", detail |-> "",
                  req |-> [r EXCEPT !.header = Append(@, <<data[1], data[2]>>)]]

OnRequest(h, r, params, err, out) ==
    CASE h = "BasicAuth" -> BasicAuthOnRequest(r, params)
      [] h = "ApiKeyHeaderFromShellAuth" -> ApiKeyHeaderFromShellAuthOnRequest(r, params, err, out)
      [] OTHER -> [result |-> "ok", detail |-> "", req |-> r]

\* the required parameters of handler h that params gives no value, in the
\* order Parameters lists them
MissingRequired(h, params) ==
    LET Lacks(p) == p.Required /\ Lookup(params, p.Name) = ""
    IN SelectSeq(Parameters(h), Lacks)

\* Auth dispatch of the request pipeline: look the scheme up, check the
\* required parameters, then let the handler apply auth to the request.
ApplyAuth(handlers, scheme, r, params, err, out) ==
    IF scheme \notin DOMAIN handlers
    THEN [result |-> "UnknownAuthScheme", detail |-> scheme, req |-> r, calls |-> 0]
    ELSE LET h == handlers[scheme]
             missing == MissingRequired(h, params)
         IN IF missing # <<>>
            THEN [result |-> "MissingAuthParam", detail |-> missing[1].Name, req |-> r, calls |-> 0]
            ELSE LET o == OnRequest(h, r, params, err, out)
                 IN IF o.result = "error"
                    THEN [result |-> "AuthHandlerError", detail |-> scheme, req |-> o.req, calls |-> 1]
                    ELSE [result |-> o.result, detail |-> o.detail, req |-> o.req, calls |-> 1]

ParamMaps == UNION {[S -> {"", "v"}] : S \in SUBSET ParamNames}

ShellOutputs == SeqsUpTo({"k", ":", "\n"}, MaxOutLen)

AuthIdle ==
    /\ authScheme = ""
    /\ authParams = EmptyMap
    /\ shellErr = FALSE
    /\ shellOut = <<>>
    /\ req = NoRequest
    /\ authResult = "none"
    /\ authDetail = ""
    /\ onRequestCalls = 0

\* One outgoing request of a profile goes through auth dispatch.
Dispatch ==
    /\ authResult = "none"
    /\ \E scheme \in {"http-basic", "api-key-header", "oauth"}, params \in ParamMaps,
          err \in BOOLEAN, out \in ShellOutputs :
        /\ scheme # "api-key-header" => (~err /\ out = <<>>)
        /\ authScheme' = scheme
        /\ authParams' = params
        /\ shellErr' = err
        /\ shellOut' = out
        /\ LET o == ApplyAuth(authHandlers, scheme, req, params, err, out)
           IN /\ authResult' = o.result
              /\ authDetail' = o.detail
              /\ req' = o.req
              /\ onRequestCalls' = onRequestCalls + o.calls
        /\ UNCHANGED <<regVars, histVars, linkVars, envVars, runVars, pageVars, loadVars>>

AuthNext ==
    \/ authResult = "none" /\ CallInit /\ UNCHANGED <<linkVars, authVars, pageVars, loadVars, envVars, runVars, pageVars>>
    \/ authResult = "none" /\ CallDefaults /\ UNCHANGED <<linkVars, authVars, pageVars, loadVars, envVars, runVars, pageVars>>
    \/ Dispatch

----------------------------------------------------------------------------
(* Run: strings are sequences of characters *)

Str_restish == <<"r", "e", "s", "t", "i", "s", "h">>

Str_myapi == <<"m", "y", "a", "p", "i">>

Str_verbose == <<"-", "v">>

Str_help == <<"h", "e", "l", "p">>

Str_head == <<"h", "e", "a", "d">>

Str_options == <<"o", "p", "t", "i", "o", "n", "s">>

Str_get == <<"g", "e", "t">>

Str_post == <<"p", "o", "s", "t">>

Str_put == <<"p", "u", "t">>

Str_patch == <<"p", "a", "t", "c", "h">>

Str_delete == <<"d", "e", "l", "e", "t", "e">>

Str_cert == <<"c", "e", "r", "t">>

Str_api == <<"a", "p", "i">>

Str_links == <<"l", "i", "n", "k", "s">>

Use_head == <<"h", "e", "a", "d", " ", "u", "r", "i">>

Use_options == <<"o", "p", "t", "i", "o", "n", "s", " ", "u", "r", "i">>

Use_get == <<"g", "e", "t", " ", "u", "r", "i">>

Use_post == <<"p", "o", "s", "t", " ", "u", "r", "i", " ", "[", "b", "o", "d", "y", ".", ".", ".", "]">>

Use_put == <<"p", "u", "t", " ", "u", "r", "i", " ", "[", "b", "o", "d", "y", ".", ".", ".", "]">>

Use_patch == <<"p", "a", "t", "c", "h", " ", "u", "r", "i", " ", "[", "b", "o", "d", "y", ".", ".", ".", "]">>

Use_delete == <<"d", "e", "l", "e", "t", "e", " ", "u", "r", "i", " ", "[", "b", "o", "d", "y", ".", ".", ".", "]">>

Use_cert == <<"c", "e", "r", "t", " ", "u", "r", "i">>

Use_links == <<"l", "i", "n", "k", "s", " ", "u", "r", "i", " ", "[", "r", "e", "l", "1", " ", "r", "e", "l", "2", ".", ".", ".", "]">>

\* the Use of the commands Init adds to Root, in the order it adds them
StaticCommands ==
    <<Use_head, Use_options, Use_get, Use_post, Use_put, Use_patch, Use_delete, Use_cert, Use_links>>

\* the names the usage template lists under "Generic Commands"
GenericCommandNames ==
    {Str_help, Str_get, Str_put, Str_post, Str_patch, Str_delete, Str_head,
     Str_options, Str_cert, Str_api, Str_links}

\* API names a configuration may hold
ApiNames == {Str_myapi, Str_cert}

ArgTokens == {Str_verbose, Str_help, Str_get, Str_cert, Str_myapi}

\* strings.HasPrefix(arg, "-")
HasDashPrefix(arg) == Len(arg) >= 1 /\ arg[1] = "-"

\* Run: "hijack the input args to find non-option arguments"
NonOptionArgs(argv) ==
    LET Keep(a) == ~HasDashPrefix(a) IN SelectSeq(argv, Keep)

\* Run: the name of the API to load, <<>> when there is none to look at
SelectApiName(args) ==
    IF Len(args) > 1
    THEN IF args[2] = Str_help /\ Len(args) > 2 THEN args[3] ELSE args[2]
    ELSE <<>>

\* Run: the names for which no API is loaded
WellKnown(name) ==
    name \in {Str_help, Str_head, Str_options, Str_get, Str_post, Str_put,
              Str_patch, Str_delete, Str_api, Str_links}

InSeq(x, sq) == \E i \in 1..Len(sq) : sq[i] = x

\* Run: is Load called for these arguments
ShouldLoad(args, cfgs, cmds) ==
    /\ Len(args) > 1
    /\ ~WellKnown(SelectApiName(args))
    /\ SelectApiName(args) \in cfgs
    /\ InSeq(SelectApiName(args), cmds)

\* an order in which Root.Execute runs before the API is loaded
RunStepAfterExecuteFirst(step, load) ==
    CASE step = "flags" -> "execute"
      [] step = "execute" -> IF load THEN "load" ELSE "exited"
      [] step = "load" -> "exited"

\* Run: the order of its steps
RunStepAfter(step, load) ==
    CASE step = "flags" -> IF load THEN "load" ELSE "execute"
      [] step = "load" -> "execute"
      [] step = "execute" -> "exited"

RECURSIVE SetToSeq(_)
SetToSeq(S) == IF S = {} THEN <<>> ELSE LET x == CHOOSE y \in S : TRUE IN <<x>> \o SetToSeq(S \ {x})

Registries == {"authHandlers", "contentTypes", "encodings", "linkParsers", "loaders", "operations"}

\* bookkeeping of a write to the registries W
Written(W) ==
    /\ lateWrites' = lateWrites \cup (IF httpRequests > 0 THEN W ELSE {})
    /\ inFlightWrites' = inFlightWrites \cup (IF inFlight THEN W ELSE {})
    /\ execWrites' = execWrites \cup (IF executions > 0 THEN W ELSE {})

Profiles == {"default", "staging"}

Callers == 1..NumCallers

\* fingerprints are numbered; a source starts with the first
FirstFp == 1

\* no Load is under way and nothing is cached
LoadIdle ==
    /\ lpc = [c \in Callers |-> "idle"]
    /\ lprofile = [c \in Callers |-> "default"]
    /\ lcalls = [c \in Callers |-> 0]
    /\ lock = [p \in Profiles |-> 0]
    /\ cache = [p \in Profiles |-> 0]
    /\ sourceFp = [p \in Profiles |-> FirstFp]
    /\ fetches = [p \in Profiles |-> 0]
    /\ fetchFailed = [p \in Profiles |-> FALSE]
    /\ loadsDone = [p \in Profiles |-> 0]

\* no pagination is under way
PageIdle ==
    /\ chainLen = 1
    /\ failAt = 0
    /\ ceiling = 1
    /\ pstate = "Idle"
    /\ started = 0
    /\ fetched = <<>>
    /\ cancelSignal = FALSE
    /\ panicked = FALSE

RunIdle ==
    /\ pc = "idle"
    /\ osArgs = <<Str_restish>>
    /\ configs = {}
    /\ apiCmds = {}
    /\ rootCmds = <<>>
    /\ apiName = <<>>
    /\ loadCalls = 0
    /\ loadResult = "none"
    /\ loadedOps = {}
    /\ executions = 0
    /\ execRequests = 0
    /\ httpRequests = 0
    /\ inFlight = FALSE
    /\ lateWrites = {}
    /\ inFlightWrites = {}
    /\ execWrites = {}

\* the process starts: its arguments and its configuration are given
RunInit ==
    /\ FreshRegistries
    /\ LinkIdle
    /\ AuthIdle
    /\ PageIdle
    /\ LoadIdle
    /\ pc = "start"
    /\ osArgs \in {<<Str_restish>> \o rest : rest \in SeqsUpTo(ArgTokens, MaxArgs)}
    /\ configs \in SUBSET ApiNames
    /\ apiCmds \in SUBSET ApiNames
    /\ rootCmds = <<>>
    /\ apiName = <<>>
    /\ loadCalls = 0
    /\ loadResult = "none"
    /\ loadedOps = {}
    /\ executions = 0
    /\ execRequests = 0
    /\ httpRequests = 0
    /\ inFlight = FALSE
    /\ lateWrites = {}
    /\ inFlightWrites = {}
    /\ execWrites = {}

\* Init: resets the registries and builds Root with the generic commands;
\* initAPIConfig adds a command for each API it sets up
MainInit ==
    /\ pc = "start"
    /\ CallInit
    /\ rootCmds' = StaticCommands \o SetToSeq(apiCmds)
    /\ Written(Registries)
    /\ pc' = "inited"
    /\ UNCHANGED <<linkVars, authVars, pageVars, loadVars, envVars, apiName, loadCalls, loadResult, loadedOps,
                   executions, execRequests, httpRequests, inFlight>>

MainDefaults ==
    /\ pc = "inited"
    /\ CallDefaults
    /\ Written({"encodings", "contentTypes", "linkParsers", "authHandlers"})
    /\ pc' = "flags"
    /\ UNCHANGED <<linkVars, authVars, pageVars, loadVars, envVars, rootCmds, apiName, loadCalls, loadResult, loadedOps,
                   executions, execRequests, httpRequests, inFlight>>

\* Run up to "Load the API commands if we can": GlobalFlags.Parse may fail
RunFlags ==
    \E err \in {"nil", "ErrHelp", "other"} :
        /\ pc = "flags"
        /\ IF err = "other"
           THEN pc' = "crashed" /\ apiName' = apiName
           ELSE /\ apiName' = SelectApiName(NonOptionArgs(osArgs))
                /\ pc' = RunStepAfter("flags", ShouldLoad(NonOptionArgs(osArgs), configs, rootCmds))
        /\ UNCHANGED <<regVars, histVars, linkVars, authVars, pageVars, loadVars, envVars, rootCmds, loadCalls,
                       loadResult, loadedOps, executions, execRequests, httpRequests, inFlight,
                       lateWrites, inFlightWrites, execWrites>>

\* Load is called: the description is in the cache, or it is fetched
LoadStart ==
    \E cached \in BOOLEAN :
        /\ pc = "load"
        /\ loadCalls' = loadCalls + 1
        /\ IF cached
           THEN pc' = "load_register" /\ UNCHANGED <<httpRequests, inFlight>>
           ELSE pc' = "load_fetch" /\ httpRequests' = httpRequests + 1 /\ inFlight' = TRUE
        /\ UNCHANGED <<regVars, histVars, linkVars, authVars, pageVars, loadVars, envVars, rootCmds, apiName,
                       loadResult, loadedOps, executions, execRequests,
                       lateWrites, inFlightWrites, execWrites>>

\* the fetch ends; when it failed Load returns the error and Run panics
LoadFetched ==
    \E ok \in BOOLEAN :
        /\ pc = "load_fetch"
        /\ inFlight' = FALSE
        /\ IF ok
           THEN pc' = "load_register" /\ loadResult' = loadResult
           ELSE pc' = "crashed" /\ loadResult' = "error"
        /\ UNCHANGED <<regVars, histVars, linkVars, authVars, pageVars, loadVars, envVars, rootCmds, apiName,
                       loadCalls, loadedOps, executions, execRequests, httpRequests,
                       lateWrites, inFlightWrites, execWrites>>

\* Load attaches the operations of the description to the API's command
LoadRegister ==
    /\ pc = "load_register"
    /\ loadedOps' = loadedOps \cup {apiName}
    /\ loadResult' = "loaded"
    /\ Written({"operations"})
    /\ pc' = RunStepAfter("load", TRUE)
    /\ UNCHANGED <<regVars, histVars, linkVars, authVars, pageVars, loadVars, envVars, rootCmds, apiName,
                   loadCalls, executions, execRequests, httpRequests, inFlight>>

\* Root.Execute() is entered
ExecuteStart ==
    /\ pc = "execute"
    /\ executions' = executions + 1
    /\ pc' = "executing"
    /\ UNCHANGED <<regVars, histVars, linkVars, authVars, pageVars, loadVars, envVars, rootCmds, apiName,
                   loadCalls, loadResult, loadedOps, execRequests, httpRequests, inFlight,
                   lateWrites, inFlightWrites, execWrites>>

\* the executed command sends a request
ExecuteRequest ==
    /\ pc = "executing"
    /\ ~inFlight
    /\ execRequests < MaxExecRequests
    /\ execRequests' = execRequests + 1
    /\ httpRequests' = httpRequests + 1
    /\ inFlight' = TRUE
    /\ UNCHANGED <<regVars, histVars, linkVars, authVars, pageVars, loadVars, envVars, pc, rootCmds, apiName,
                   loadCalls, loadResult, loadedOps, executions,
                   lateWrites, inFlightWrites, execWrites>>

ExecuteResponse ==
    /\ pc = "executing"
    /\ inFlight
    /\ inFlight' = FALSE
    /\ UNCHANGED <<regVars, histVars, linkVars, authVars, pageVars, loadVars, envVars, pc, rootCmds, apiName,
                   loadCalls, loadResult, loadedOps, executions, execRequests, httpRequests,
                   lateWrites, inFlightWrites, execWrites>>

\* Root.Execute() returns, with or without an error, or panics and the
\* deferred recover logs it: Run returns
ExecuteEnd ==
    /\ pc = "executing"
    /\ ~inFlight
    /\ pc' = RunStepAfter("execute", ShouldLoad(NonOptionArgs(osArgs), configs, rootCmds))
    /\ UNCHANGED <<regVars, histVars, linkVars, authVars, pageVars, loadVars, envVars, rootCmds, apiName,
                   loadCalls, loadResult, loadedOps, executions, execRequests, httpRequests,
                   inFlight, lateWrites, inFlightWrites, execWrites>>

RunNext ==
    \/ MainInit
    \/ MainDefaults
    \/ RunFlags
    \/ LoadStart
    \/ LoadFetched
    \/ LoadRegister
    \/ ExecuteStart
    \/ ExecuteRequest
    \/ ExecuteResponse
    \/ ExecuteEnd

SpecRun == RunInit /\ [][RunNext]_vars

----------------------------------------------------------------------------
(* Auto-pagination: the request pipeline follows the next relation *)

\* a server whose every page carries a next relation
HasNextAlways(page, len) == TRUE

\* page number page of a chain of len pages carries a next relation
HasNextLink(page, len) == page < len

\* the state after page number page has been fetched and decoded, n pages
\* being fetched so far
AfterFetch(page, len, ceil, n) ==
    IF HasNextLink(page, len) /\ n < ceil THEN "HasNext" ELSE "Done"

\* a suspension point that does not look at the signal
ObserveIgnoringCancel(signal, state) == state

\* a suspension point honours the cancellation signal
Observe(signal, state) == IF signal THEN "Cancelled" ELSE state

\* generic: builds the body and the request and hands it to the pipeline,
\* which starts the first fetch; GetBody's error is a panic
Generic ==
    \E bodyErr \in BOOLEAN :
        /\ pstate = "Idle"
        /\ ~panicked
        /\ IF bodyErr
           THEN panicked' = TRUE /\ UNCHANGED <<pstate, started>>
           ELSE pstate' = "Fetching" /\ started' = started + 1 /\ panicked' = panicked
        /\ UNCHANGED <<chainLen, failAt, ceiling, fetched, cancelSignal>>

\* the fetch in flight ends: aborted by the cancellation signal, failed, or
\* the page is decoded and its links resolved
FetchEnds ==
    /\ pstate = "Fetching"
    /\ LET page == started
       IN IF Observe(cancelSignal, "go") = "Cancelled"
          THEN pstate' = "Cancelled" /\ fetched' = fetched
          ELSE IF failAt = page
          THEN pstate' = "Failed" /\ fetched' = fetched
          ELSE /\ fetched' = Append(fetched, page)
               /\ pstate' = AfterFetch(page, chainLen, ceiling, Len(fetched) + 1)
    /\ UNCHANGED <<chainLen, failAt, ceiling, started, cancelSignal, panicked>>

\* the pipeline re-enters itself with the next target
FollowNext ==
    /\ pstate = "HasNext"
    /\ IF Observe(cancelSignal, "go") = "Cancelled"
       THEN pstate' = "Cancelled" /\ started' = started
       ELSE pstate' = "Fetching" /\ started' = started + 1
    /\ UNCHANGED <<chainLen, failAt, ceiling, fetched, cancelSignal, panicked>>

\* the caller's cancellation signal fires while the pagination is under way
Cancel ==
    /\ pstate \in {"Fetching", "HasNext"}
    /\ ~cancelSignal
    /\ cancelSignal' = TRUE
    /\ UNCHANGED <<chainLen, failAt, ceiling, pstate, started, fetched, panicked>>

PageInit ==
    /\ FreshRegistries
    /\ LinkIdle
    /\ AuthIdle
    /\ RunIdle
    /\ LoadIdle
    /\ chainLen \in 1..MaxPages
    /\ failAt \in 0..MaxPages
    /\ ceiling \in 1..MaxCeiling
    /\ pstate = "Idle"
    /\ started = 0
    /\ fetched = <<>>
    /\ cancelSignal = FALSE
    /\ panicked = FALSE

PageNext ==
    \/ Generic /\ UNCHANGED <<regVars, histVars, linkVars, authVars, envVars, runVars, loadVars>>
    \/ FetchEnds /\ UNCHANGED <<regVars, histVars, linkVars, authVars, envVars, runVars, loadVars>>
    \/ FollowNext /\ UNCHANGED <<regVars, histVars, linkVars, authVars, envVars, runVars, loadVars>>
    \/ Cancel /\ UNCHANGED <<regVars, histVars, linkVars, authVars, envVars, runVars, loadVars>>

\* a fetch in flight ends (the transport answers or times out) and the
\* pipeline, once it has a next target, goes on
SpecPage ==
    /\ PageInit
    /\ [][PageNext]_vars
    /\ WF_vars(FetchEnds /\ UNCHANGED <<regVars, histVars, linkVars, authVars, envVars, runVars, loadVars>>)
    /\ WF_vars(FollowNext /\ UNCHANGED <<regVars, histVars, linkVars, authVars, envVars, runVars, loadVars>>)

----------------------------------------------------------------------------
(* The API description loader: load-or-fetch through the description cache, *)
(* serialized per profile                                                   *)

\* a loader that does not serialize
LockIgnored(l, p) == TRUE

\* load-or-fetch is serialized per profile key
LockFree(l, p) == l[p] = 0

\* the cached description is present and its fingerprint is the source's
CacheValid(c, fp, p) == c[p] # 0 /\ c[p] = fp[p]

\* a caller calls Load for a profile
LoadCall(c) ==
    \E p \in Profiles :
        /\ lpc[c] = "idle"
        /\ lcalls[c] < MaxLoadsPerCaller
        /\ lcalls' = [lcalls EXCEPT ![c] = @ + 1]
        /\ lprofile' = [lprofile EXCEPT ![c] = p]
        /\ lpc' = [lpc EXCEPT ![c] = "waiting"]
        /\ UNCHANGED <<lock, cache, sourceFp, fetches, fetchFailed, loadsDone>>

\* step (1): under the profile's lock, consult the cache; a valid entry
\* answers the call, otherwise the fetch starts
LoadConsult(c) ==
    LET p == lprofile[c]
    IN /\ lpc[c] = "waiting"
       /\ LockFree(lock, p)
       /\ IF CacheValid(cache, sourceFp, p)
          THEN /\ lpc' = [lpc EXCEPT ![c] = "idle"]
               /\ loadsDone' = [loadsDone EXCEPT ![p] = @ + 1]
               /\ UNCHANGED <<lock, fetches>>
          ELSE /\ lpc' = [lpc EXCEPT ![c] = "fetching"]
               /\ lock' = [lock EXCEPT ![p] = c]
               /\ fetches' = [fetches EXCEPT ![p] = @ + 1]
               /\ UNCHANGED loadsDone
       /\ UNCHANGED <<lprofile, lcalls, cache, sourceFp, fetchFailed>>

\* step (2): the fetch ends; a fetched description is fingerprinted and
\* stored, a failed fetch stores nothing
LoadFetchEnds(c) ==
    \E ok \in BOOLEAN :
        LET p == lprofile[c]
        IN /\ lpc[c] = "fetching"
           /\ lpc' = [lpc EXCEPT ![c] = "idle"]
           /\ lock' = [lock EXCEPT ![p] = IF @ = c THEN 0 ELSE @]
           /\ loadsDone' = [loadsDone EXCEPT ![p] = @ + 1]
           /\ IF ok
              THEN cache' = [cache EXCEPT ![p] = sourceFp[p]] /\ fetchFailed' = fetchFailed
              ELSE cache' = cache /\ fetchFailed' = [fetchFailed EXCEPT ![p] = TRUE]
           /\ UNCHANGED <<lprofile, lcalls, sourceFp, fetches>>

\* the description at a profile's source location changes
SourceChanges ==
    \E p \in Profiles :
        /\ sourceFp[p] < FirstFp + MaxFpChanges
        /\ sourceFp' = [sourceFp EXCEPT ![p] = @ + 1]
        /\ UNCHANGED <<lpc, lprofile, lcalls, lock, cache, fetches, fetchFailed, loadsDone>>

LoaderNext ==
    \/ \E c \in Callers : LoadCall(c)
    \/ \E c \in Callers : LoadConsult(c)
    \/ \E c \in Callers : LoadFetchEnds(c)
    \/ SourceChanges

LoadNext == LoaderNext /\ UNCHANGED <<regVars, histVars, linkVars, authVars, envVars, runVars, pageVars>>

RegInit ==
    /\ FreshRegistries
    /\ LinkIdle
    /\ AuthIdle
    /\ RunIdle
    /\ PageIdle
    /\ LoadIdle

RegNext ==
    \/ CallInit /\ UNCHANGED <<linkVars, authVars, pageVars, loadVars, envVars, runVars, pageVars>>
    \/ CallDefaults /\ UNCHANGED <<linkVars, authVars, pageVars, loadVars, envVars, runVars, pageVars>>
    \/ CallAddAuth /\ UNCHANGED <<linkVars, authVars, pageVars, loadVars, envVars, runVars, pageVars>>
    \/ CallAddContentType /\ UNCHANGED <<linkVars, authVars, pageVars, loadVars, envVars, runVars, pageVars>>
    \/ CallAddEncoding /\ UNCHANGED <<linkVars, authVars, pageVars, loadVars, envVars, runVars, pageVars>>

SpecReg == RegInit /\ [][RegNext]_vars

SpecLink == RegInit /\ [][LinkNext]_vars

SpecAuth == RegInit /\ [][AuthNext]_vars

SpecLoad == RegInit /\ [][LoadNext]_vars

----------------------------------------------------------------------------
(* C8 *)

AuthEntries(name) == {h \in AuthHandlerTypes : name \in DOMAIN authHandlers /\ authHandlers[name] = h}

\* C8: after any sequence of Init, Defaults and AddAuth calls every auth scheme
\* name registered since the last Init maps to exactly one handler, the one
\* most recently registered under it, and a name not registered since the last
\* Init has no entry; content-type patterns and encoding names likewise have
\* exactly one entry, holding the latest registration.
RegistryKeysUnique ==
    /\ \A name \in AuthNames :
        IF lastAuth[name] = NoHandler
        THEN AuthEntries(name) = {}
        ELSE AuthEntries(name) = {lastAuth[name]}
    /\ DOMAIN authHandlers \subseteq AuthNames
    /\ \A name \in ContentTypeNames :
        IF lastCT[name] = NoCT
        THEN CTIndex(contentTypes, name) = {}
        ELSE /\ Cardinality(CTIndex(contentTypes, name)) = 1
             /\ \A i \in CTIndex(contentTypes, name) :
                    <<contentTypes[i].q, contentTypes[i].ct>> = lastCT[name]
    /\ \A name \in EncodingNames :
        IF lastEnc[name] = NoHandler
        THEN name \notin DOMAIN encodings
        ELSE name \in DOMAIN encodings /\ encodings[name] = lastEnc[name]

\* a handler registered by Defaults has been replaced by a later AddAuth, and
\* a content type has been registered twice
ReRegistered ==
    /\ "http-basic" \in DOMAIN authHandlers
    /\ authHandlers["http-basic"] = "CustomAuth"
    /\ "api-key-header" \in DOMAIN authHandlers
    /\ \E i \in 1..Len(contentTypes) :
        contentTypes[i].name = "application/json" /\ contentTypes[i].ct = "CustomCodec"
    /\ Len(contentTypes) = 6

----------------------------------------------------------------------------
(* C7 *)

RECURSIVE LinksBefore(_, _)
\* how many links for relation r the parsers registered before position i report
LinksBefore(i, r) ==
    IF i <= 1 THEN 0
    ELSE LinksBefore(i - 1, r) + Len(ParserLinks(linkParsers[i - 1], response)[r])

\* C7: the merged map holds, for every relation, every link every registered
\* parser reported for it, grouped by parser in registration order and in
\* discovery order within a parser; with the parsers of Defaults that order is
\* LinkHeaderParser, HALParser, TerrificallySimpleJSONParser, JSONAPIParser.
LinkMergeConcatenates ==
    resolved =>
        \A r \in Rels :
            /\ Len(links[r]) = LinksBefore(Len(linkParsers) + 1, r)
            /\ \A i \in 1..Len(linkParsers) :
                \A k \in 1..Len(ParserLinks(linkParsers[i], response)[r]) :
                    links[r][LinksBefore(i, r) + k] = ParserLinks(linkParsers[i], response)[r][k]
            /\ (defaultsSinceInit = 1 /\ extraParsers = 0) =>
                links[r] = ParserLinks("LinkHeaderParser", response)[r]
                           \o ParserLinks("HALParser", response)[r]
                           \o ParserLinks("TerrificallySimpleJSONParser", response)[r]
                           \o ParserLinks("JSONAPIParser", response)[r]

\* two of the Defaults parsers both report next for one response
TwoParsersReportNext ==
    /\ resolved
    /\ defaultsSinceInit = 1
    /\ extraParsers = 0
    /\ response["LinkHeaderParser"] = <<"next">>
    /\ response["HALParser"] = <<"self", "next">>
    /\ response["JSONAPIParser"] = <<>>
    /\ response["TerrificallySimpleJSONParser"] = <<>>
    /\ Len(links["next"]) = 2
    /\ links["next"][1].uri = <<"LinkHeaderParser", 1>>
    /\ links["next"][2].uri = <<"HALParser", 2>>

----------------------------------------------------------------------------
(* C2, C3 *)

Dispatched == authResult # "none"

Registered == authScheme \in DOMAIN authHandlers

\* the shell command fails, or what it prints is not two ':'-separated fields
CredentialUnderivable ==
    shellErr \/ Len(Split(TrimSuffixNL(shellOut))) # 2

\* C2: when ApiKeyHeaderFromShellAuth cannot derive its credential, OnRequest
\* returns an error that dispatch reports as a handler error naming the
\* handler; it does not panic.
HandlerFailureIsReturned ==
    (/\ Dispatched
     /\ Registered
     /\ authHandlers[authScheme] = "ApiKeyHeaderFromShellAuth"
     /\ Lookup(authParams, "cmd") # ""
     /\ CredentialUnderivable)
    => (authResult = "AuthHandlerError" /\ authDetail = authScheme)

\* C3: a request whose params lack a value for a parameter the handler
\* declares Required fails with MissingAuthParam naming the first such
\* parameter, OnRequest is not invoked and the request is left untouched;
\* http-basic given only username fails naming password.
MissingParamStopsDispatch ==
    /\ (Dispatched /\ Registered /\ MissingRequired(authHandlers[authScheme], authParams) # <<>>)
        => /\ authResult = "MissingAuthParam"
           /\ authDetail = MissingRequired(authHandlers[authScheme], authParams)[1].Name
           /\ onRequestCalls = 0
           /\ req = NoRequest
    /\ (Dispatched /\ Registered /\ authHandlers[authScheme] = "BasicAuth"
        /\ Lookup(authParams, "username") # "" /\ Lookup(authParams, "password") = "")
        => /\ authResult = "MissingAuthParam"
           /\ authDetail = "password"
           /\ onRequestCalls = 0
           /\ req.basic = <<>>

\* http-basic was dispatched with a username and no password
BasicAuthOnlyUsername ==
    /\ Dispatched
    /\ authScheme = "http-basic"
    /\ Registered
    /\ authHandlers[authScheme] = "BasicAuth"
    /\ authParams = [k \in {"username"} |-> "v"]
    /\ authResult = "MissingAuthParam"
    /\ authDetail = "password"

----------------------------------------------------------------------------
(* C1, C9, C10 *)

\* C1: a failing Load is reported and Run goes on to Root.Execute; the
\* failure does not end the process.
LoadFailureKeepsStaticCommands ==
    loadResult = "error" => (pc # "crashed" /\ (pc = "exited" => executions = 1))

\* the argument the claim calls the API name: the first non-option argument
\* after the program name, or the one following an explicit help
NamedArgument ==
    LET rest == NonOptionArgs(Tail(osArgs))
    IN IF rest = <<>> THEN <<>>
       ELSE IF rest[1] = Str_help /\ Len(rest) > 1 THEN rest[2] ELSE rest[1]

\* C10: Load is called at most once, before Root.Execute, and only for an
\* argument that is not a generic command name and names a configured API
\* with a root command of that Use.
LoadOnlyForApiCommand ==
    /\ loadCalls <= 1
    /\ pc \in {"load", "load_fetch", "load_register"} => executions = 0
    /\ (loadCalls >= 1 \/ pc = "load") =>
        /\ NamedArgument # <<>>
        /\ NamedArgument \notin GenericCommandNames
        /\ NamedArgument \in configs
        /\ InSeq(NamedArgument, rootCmds)

\* C9 as stated: no registry is written once a request has been issued, by
\* Load or by the executed command, nor while one is executing.
SetupBeforeAnyRequest ==
    /\ lateWrites = {}
    /\ inFlightWrites = {}

\* C9, amended: the content-type, encoding, auth and link-parser registries
\* (and the loaders) are written only before the first HTTP request; the
\* operation registry is written by Load after its own fetch of the
\* description has ended, and before Root.Execute is entered; no registry is
\* written while a request is in flight or after Root.Execute is entered.
SetupBeforeExecute ==
    /\ lateWrites \subseteq {"operations"}
    /\ inFlightWrites = {}
    /\ execWrites = {}
    /\ loadedOps # {} => loadCalls >= 1

\* Load fetched the description, registered the operations, and the executed
\* command then sent its requests
LoadedThenExecuted ==
    /\ pc = "exited"
    /\ loadResult = "loaded"
    /\ lateWrites = {"operations"}
    /\ loadedOps = {Str_myapi}
    /\ executions = 1
    /\ httpRequests = 3

----------------------------------------------------------------------------
(* C4, C5 *)

Min(a, b) == IF a < b THEN a ELSE b

FirstPages(n) == [i \in 1..n |-> i]

\* no fetch the pagination gets to fails
NoFailureAhead == failAt = 0 \/ failAt > Min(chainLen, ceiling)

CancellationStopsFetching ==
    /\ [][(cancelSignal \/ cancelSignal') => (started' = started /\ fetched' = fetched)]_vars
    /\ [](cancelSignal => pstate \in {"Fetching", "HasNext", "Cancelled"})
    /\ (cancelSignal ~> pstate = "Cancelled")
    /\ [][pstate = "Cancelled" => pstate' = "Cancelled"]_vars

\* cancelled while the second page was in flight: the first page is kept
CancelledMidway ==
    /\ pstate = "Cancelled"
    /\ cancelSignal
    /\ chainLen = 3
    /\ started = 2
    /\ fetched = <<1>>

----------------------------------------------------------------------------
(* C6 *)

====
